---- MODULE Spec2Model ----
(***************************************************************************)
(* Model of the typed response dispatcher ZodFetcher (fetcher-zod.ts):     *)
(* the builder calls handle / discardRestAsError / discardRestAsTo / map   *)
(* and the two execution modes run / safeRun.                              *)
(*                                                                         *)
(* A dispatcher is a heap object; `fetchers` is the heap, indexed by the   *)
(* order of construction (fetchers[1] is the one built by `new`, the       *)
(* others are built by map).  handle and the two discardRest* methods      *)
(* mutate `this` and return it, map allocates.                             *)
(*                                                                         *)
(* run is an async function: it executes atomically between two awaits.    *)
(* There are three awaits (the transport, the extractor, clone.text()),    *)
(* so a run has one action per await that settles.  The injected           *)
(* capabilities (transport, extractor, parser, handler, fallbacks) are     *)
(* arbitrary user functions: what each call returns or throws is chosen    *)
(* nondeterministically when the call is made.                             *)
(***************************************************************************)
EXTENDS Integers, Sequences, FiniteSets, TLC

\* ---------------------------------------------------------------- bounds
MaxFetchers == 3   \* dispatcher instances alive (1 constructed + map results)
MaxCalls    == 3   \* builder calls made in one behaviour
MaxRuns     == 1   \* run()/safeRun() invocations made in one behaviour
MaxOverlap  == 2   \* invocations a caller of SpecOverlap holds at a time

\* ---------------------------------------------------------------- values
Undefined == [tag |-> "undefined"]

Codes    == {200, 400}          \* codes the builder registers
Statuses == {200, 400, 500}     \* statuses the transport may answer with
ContentTypes == {"absent", "application/json",
                 "application/json; charset=utf-8", "text/plain"}

RestToFns    == {"dflt", "other"}
RestErrorFns == {"mkError"}
\* a function passed to map is a pipeline of named functions: <<"f">> is
\* f, <<"f", "g">> is x => g(f(x))
MapFns       == {<<"f">>, <<"g">>}

\* values a user function may throw; `cls` is the constructor it is an
\* instance of.  "string" stands for a thrown non-Error value.
PlainError    == [tag |-> "error", cls |-> "Error", id |-> "boom"]
ForeignFetcherError == [tag |-> "error", cls |-> "FetcherError", id |-> "inner"]
ThrownString  == [tag |-> "error", cls |-> "string", id |-> "oops"]
Thrown        == {PlainError, ForeignFetcherError, ThrownString}

FetcherErrorClasses ==
  {"FetcherError", "HandlerNotSetError", "JsonDeserializationError",
   "ValidationError", "NetworkError", "ParsingError"}

\* error instanceof FetcherError
IsFetcherError(e) == e.cls \in FetcherErrorClasses
\* error instanceof Error
IsError(e) == e.cls # "string"

FetcherError(message) ==
  [tag |-> "error", cls |-> "FetcherError", id |-> message]
HandlerNotSetError(code) ==
  [tag |-> "error", cls |-> "HandlerNotSetError", code |-> code]
JsonDeserializationError(response, responseText, cause) ==
  [tag |-> "error", cls |-> "JsonDeserializationError",
   response |-> response, responseText |-> responseText, cause |-> cause]
ValidationError(value, schema, validationError) ==
  [tag |-> "error", cls |-> "ValidationError", value |-> value,
   schema |-> schema, validationError |-> validationError]
NetworkError(request, requestInit, cause) ==
  [tag |-> "error", cls |-> "NetworkError", request |-> request,
   requestInit |-> requestInit, cause |-> cause]
ParsingError(rawData, handlerName, cause) ==
  [tag |-> "error", cls |-> "ParsingError", rawData |-> rawData,
   handlerName |-> handlerName, cause |-> cause]

\* SafeResult constructors
ok(data)   == [status |-> "ok", data |-> data, error |-> Undefined]
err(error) == [status |-> "error", data |-> Undefined, error |-> error]

\* ------------------------------------------------------------ functions
\* A handler is a user function followed by the map functions composed
\* onto it: (data) => fn(handler(data)).
Handler(h) == [tag |-> "handler", base |-> h, maps |-> <<>>]
Schema(s)  == [tag |-> "schema", id |-> s]

\* the value fn(v), fn a named function: a term recording the application
ApplyFn(fn, v) == [tag |-> "app", fn |-> fn, arg |-> v]

\* the value fn(v), fn a function passed to map
RECURSIVE ApplyAll(_, _)
ApplyAll(fns, v) ==
  IF fns = <<>> THEN v ELSE ApplyAll(Tail(fns), ApplyFn(Head(fns), v))

\* the value of the map functions composed onto a handler, innermost first
RECURSIVE ApplyMaps(_, _)
ApplyMaps(maps, v) ==
  IF maps = <<>> THEN v ELSE ApplyMaps(Tail(maps), ApplyAll(Head(maps), v))

\* the value handler(data), when no function in the chain throws
CallHandler(handler, data) ==
  ApplyMaps(handler.maps, ApplyFn(handler.base, data))

\* handler.name || 'anonymous': the arrow function map builds has no name
HandlerName(handler) ==
  IF handler.maps = <<>> THEN handler.base ELSE "anonymous"

\* the (handler, schema, extractor) argument lists handle is called with
Triplets ==
  {[handler |-> Handler("h1"), schema |-> Undefined,
    extractor |-> "defaultExtractor"],
   [handler |-> Handler("h2"), schema |-> Schema("s1"),
    extractor |-> "defaultExtractor"],
   [handler |-> Handler("h1"), schema |-> Schema("s1"),
    extractor |-> "customExtractor"],
   [handler |-> Handler("h2"), schema |-> Undefined,
    extractor |-> "customExtractor"]}

\* ----------------------------------------------------------------- state
VARIABLES
  fetchers,   \* heap of dispatcher instances, in order of construction
  runs,       \* the run()/safeRun() invocations the caller still holds
  ncalls,     \* number of builder calls made so far
  nruns,      \* number of run()/safeRun() invocations made so far
  compiledSchemas,  \* TypeBox: the module's Map from schema to TypeCheck
  parserCalls       \* TypeBox: the calls of this.parser made so far

vars == <<fetchers, runs, ncalls, nruns, compiledSchemas, parserCalls>>

NoHandlers == [c \in Statuses |-> Undefined]

\* new ZodFetcher(input, init, parser, fetch)
NewFetcher(input, init, parser, fetch) ==
  [handlers |-> NoHandlers,
   restToHandler |-> Undefined,
   restErrorHandler |-> Undefined,
   input |-> input, init |-> init, parser |-> parser, fetch |-> fetch]

Init ==
  /\ fetchers = <<NewFetcher("url", "init", "parser", "fetch")>>
  /\ runs = <<>>
  /\ ncalls = 0
  /\ nruns = 0
  /\ compiledSchemas = <<>>
  /\ parserCalls = <<>>

FetcherIds == DOMAIN fetchers
RunIds == DOMAIN runs

\* --------------------------------------------------------------- builder
\* mutant: registering an entry resets the fallbacks
handle_dropsFallbacks(this, code, handler, schema, extractor) ==
  [this EXCEPT !.handlers[code] =
     [handler |-> handler, schema |-> schema, extractor |-> extractor],
               !.restToHandler = Undefined,
               !.restErrorHandler = Undefined]

\* mutant: an entry already registered for the code is kept
handle_firstWins(this, code, handler, schema, extractor) ==
  IF this.handlers[code] # Undefined THEN this
  ELSE [this EXCEPT !.handlers[code] =
          [handler |-> handler, schema |-> schema, extractor |-> extractor]]

\* handle(code, handler, schema, extractor): this.handlers.set(...); return this
handle(this, code, handler, schema, extractor) ==
  [this EXCEPT !.handlers[code] =
     [handler |-> handler, schema |-> schema, extractor |-> extractor]]

\* mutant: registering the error-fallback clears the value-fallback
discardRestAsError_clearsValue(this, restErrorHandler) ==
  [this EXCEPT !.restErrorHandler = [tag |-> "fn", fn |-> restErrorHandler],
               !.restToHandler = Undefined]

\* discardRestAsError(restErrorHandler): this.restErrorHandler = ...; return this
discardRestAsError(this, restErrorHandler) ==
  [this EXCEPT !.restErrorHandler = [tag |-> "fn", fn |-> restErrorHandler]]

\* mutant: registering the value-fallback clears the error-fallback
discardRestAsTo_clearsError(this, restToHandler) ==
  [this EXCEPT !.restToHandler = [tag |-> "fn", fn |-> restToHandler],
               !.restErrorHandler = Undefined]

\* discardRestAsTo(restToHandler): this.restToHandler = ...; return this
discardRestAsTo(this, restToHandler) ==
  [this EXCEPT !.restToHandler = [tag |-> "fn", fn |-> restToHandler]]

\* mutant: fn is composed under the handler chain instead of onto it
MapHandlers_prepend(this, fn) ==
  [c \in Statuses |->
     IF this.handlers[c] = Undefined THEN Undefined
     ELSE [this.handlers[c] EXCEPT !.handler.maps = <<fn>> \o @]]

\* mutant: the mapped entries lose their schema
MapHandlers_dropSchema(this, fn) ==
  [c \in Statuses |->
     IF this.handlers[c] = Undefined THEN Undefined
     ELSE [this.handlers[c] EXCEPT !.handler.maps = Append(@, fn),
                                   !.schema = Undefined]]

\* the handlers of map's result: every triplet with fn composed onto the
\* handler, schema and extractor as they are
MapHandlers(this, fn) ==
  [c \in Statuses |->
     IF this.handlers[c] = Undefined THEN Undefined
     ELSE [this.handlers[c] EXCEPT !.handler.maps = Append(@, fn)]]

\* mutant: map passes on the request descriptor only, the new instance
\* gets the default parser and the global fetch
map_defaultCapabilities(this, i, fn) ==
  [NewFetcher(this.input, this.init, "defaultParser", "globalThis.fetch")
   EXCEPT
     !.handlers = MapHandlers(this, fn),
     !.restToHandler =
        IF this.restToHandler # Undefined
        THEN [tag |-> "closure", src |-> i, fn |-> fn]
        ELSE Undefined,
     !.restErrorHandler = this.restErrorHandler]

\* mutant: map leaves the error-fallback of the new instance unset
map_noRestError(this, i, fn) ==
  [NewFetcher(this.input, this.init, this.parser, this.fetch) EXCEPT
     !.handlers = MapHandlers(this, fn),
     !.restToHandler =
        IF this.restToHandler # Undefined
        THEN [tag |-> "closure", src |-> i, fn |-> fn]
        ELSE Undefined]

\* map(fn), called on fetchers[i]: a new instance.  Its restToHandler is
\* the closure () => fn(this.restToHandler!()), which reads the field of
\* the instance map was called on when it is CALLED; its restErrorHandler
\* is the same function object.
map(this, i, fn) ==
  [NewFetcher(this.input, this.init, this.parser, this.fetch) EXCEPT
     !.handlers = MapHandlers(this, fn),
     !.restToHandler =
        IF this.restToHandler # Undefined
        THEN [tag |-> "closure", src |-> i, fn |-> fn]
        ELSE Undefined,
     !.restErrorHandler = this.restErrorHandler]

Handle(i, code, t) ==
  /\ ncalls < MaxCalls
  /\ fetchers' = [fetchers EXCEPT
        ![i] = handle(fetchers[i], code, t.handler, t.schema, t.extractor)]
  /\ ncalls' = ncalls + 1
  /\ UNCHANGED <<runs, nruns, compiledSchemas,
               parserCalls>>

DiscardRestAsError(i, fn) ==
  /\ ncalls < MaxCalls
  /\ fetchers' = [fetchers EXCEPT ![i] = discardRestAsError(fetchers[i], fn)]
  /\ ncalls' = ncalls + 1
  /\ UNCHANGED <<runs, nruns, compiledSchemas,
               parserCalls>>

DiscardRestAsTo(i, fn) ==
  /\ ncalls < MaxCalls
  /\ fetchers' = [fetchers EXCEPT ![i] = discardRestAsTo(fetchers[i], fn)]
  /\ ncalls' = ncalls + 1
  /\ UNCHANGED <<runs, nruns, compiledSchemas,
               parserCalls>>

\* mutant: map composes fn onto the entries of the instance it is called
\* on as well
Map_sharing(i, fn) ==
  /\ ncalls < MaxCalls
  /\ Len(fetchers) < MaxFetchers
  /\ fetchers' = Append([fetchers EXCEPT
                           ![i].handlers = MapHandlers(fetchers[i], fn)],
                        map(fetchers[i], i, fn))
  /\ ncalls' = ncalls + 1
  /\ UNCHANGED <<runs, nruns, compiledSchemas,
               parserCalls>>

Map(i, fn) ==
  /\ ncalls < MaxCalls
  /\ Len(fetchers) < MaxFetchers
  /\ fetchers' = Append(fetchers, map(fetchers[i], i, fn))
  /\ ncalls' = ncalls + 1
  /\ UNCHANGED <<runs, nruns, compiledSchemas,
               parserCalls>>

\* -------------------------------------------------------- calling things
\* restToHandler(): the value a value-fallback produces, on heap fs
RECURSIVE CallRestTo(_, _)
CallRestTo(fs, h) ==
  IF h.tag = "fn" THEN [tag |-> "value", fn |-> h.fn]
  ELSE ApplyAll(h.fn, CallRestTo(fs, fs[h.src].restToHandler))

\* restErrorHandler(response): the Error an error-fallback constructs
CallRestError(h, response) ==
  [tag |-> "error", cls |-> "Error", id |-> h.fn, response |-> response]

\* what may stand before and after a media type in a header value
Affixes == {"", "; charset=utf-8"}

\* String.prototype.includes
includes(string, searchString) ==
  \E before \in Affixes, after \in Affixes :
    string = before \o searchString \o after

\* mutant: the header value is compared, not searched
defaultExtractor_exact(response) ==
  IF response.contentType = "application/json"
  THEN [tag |-> "body", via |-> "json"]
  ELSE [tag |-> "body", via |-> "text"]

\* what the extractor resolves with: the default extractor decodes as JSON
\* iff the content-type header contains application/json, else as text
defaultExtractor(response) ==
  IF response.contentType # "absent"
     /\ includes(response.contentType, "application/json")
  THEN [tag |-> "body", via |-> "json"]
  ELSE [tag |-> "body", via |-> "text"]

ExtractedBody(extractor, response) ==
  IF extractor = "defaultExtractor" THEN defaultExtractor(response)
  ELSE [tag |-> "body", via |-> extractor]

\* this.parser(schema, body): a ParsedResult, or the parser throws
ParserBehaviours == {"success", "failure", "throw"}
CallParser(schema, body, pb) ==
  CASE pb = "success" ->
         [tag |-> "parsed", success |-> TRUE,
          data |-> [tag |-> "validated", schema |-> schema.id, of |-> body]]
    [] pb = "failure" ->
         [tag |-> "parsed", success |-> FALSE,
          error |-> [tag |-> "error", cls |-> "Error", id |-> "zod",
                     schema |-> schema.id, of |-> body]]
    [] pb = "throw" -> [tag |-> "threw", error |-> PlainError]

\* ------------------------------------------------------------------- run
Pending == [kind |-> "pending", out |-> Undefined, diag |-> Undefined,
            error |-> Undefined]
Resolve(out, diag) == [kind |-> "resolve", out |-> out, diag |-> diag,
                       error |-> Undefined]
Reject(error) == [kind |-> "reject", out |-> Undefined, diag |-> Undefined,
                  error |-> error]

\* mutant: the outer catch re-rejects whatever it caught
OuterCatch_rethrow(this, error) == Reject(error)

\* the outer catch of run
OuterCatch(this, error) ==
  IF IsFetcherError(error) THEN Reject(error)
  ELSE Reject(NetworkError(this.input, this.init, error))

\* const triplet = this.handlers.get(status)
Lookup(this, status) == this.handlers[status]

\* mutant: the error of the error-fallback is thrown inside the outer try
Unmatched_throwRest(fs, this, response, fb) ==
  IF this.restErrorHandler # Undefined
  THEN OuterCatch(this, IF fb = Undefined
                        THEN CallRestError(this.restErrorHandler, response)
                        ELSE fb)
  ELSE IF this.restToHandler # Undefined
  THEN IF fb = Undefined
       THEN Resolve(CallRestTo(fs, this.restToHandler), Undefined)
       ELSE OuterCatch(this, fb)
  ELSE Reject(HandlerNotSetError(response.status))

\* mutant: the value-fallback is looked at before the error-fallback
Unmatched_valueFirst(fs, this, response, fb) ==
  IF this.restToHandler # Undefined
  THEN IF fb = Undefined
       THEN Resolve(CallRestTo(fs, this.restToHandler), Undefined)
       ELSE OuterCatch(this, fb)
  ELSE IF this.restErrorHandler # Undefined
  THEN IF fb = Undefined
       THEN Reject(CallRestError(this.restErrorHandler, response))
       ELSE OuterCatch(this, fb)
  ELSE Reject(HandlerNotSetError(response.status))

\* mutant: the value-fallback is not consulted
Unmatched_noRestTo(fs, this, response, fb) ==
  IF this.restErrorHandler # Undefined
  THEN IF fb = Undefined
       THEN Reject(CallRestError(this.restErrorHandler, response))
       ELSE OuterCatch(this, fb)
  ELSE Reject(HandlerNotSetError(response.status))

\* mutant: the final rejection is missing, run falls off its end
Unmatched_fallThrough(fs, this, response, fb) ==
  IF this.restErrorHandler # Undefined
  THEN IF fb = Undefined
       THEN Reject(CallRestError(this.restErrorHandler, response))
       ELSE OuterCatch(this, fb)
  ELSE IF this.restToHandler # Undefined
  THEN IF fb = Undefined
       THEN Resolve(CallRestTo(fs, this.restToHandler), Undefined)
       ELSE OuterCatch(this, fb)
  ELSE Resolve(Undefined, Undefined)

\* no triplet: the two fallbacks, then HandlerNotSetError.  fb is what the
\* fallback that gets called throws (Undefined: it returns).
Unmatched(fs, this, response, fb) ==
  IF this.restErrorHandler # Undefined
  THEN IF fb = Undefined
       THEN Reject(CallRestError(this.restErrorHandler, response))
       ELSE OuterCatch(this, fb)
  ELSE IF this.restToHandler # Undefined
  THEN IF fb = Undefined
       THEN Resolve(CallRestTo(fs, this.restToHandler), Undefined)
       ELSE OuterCatch(this, fb)
  ELSE Reject(HandlerNotSetError(response.status))

\* the fallback Unmatched calls
UnmatchedCalls(this) ==
  IF this.restErrorHandler # Undefined THEN <<"restErrorHandler">>
  ELSE IF this.restToHandler # Undefined THEN <<"restToHandler">>
  ELSE <<>>

\* if (schema) parsedResult = this.parser(schema, body)
Validate(triplet, body, pb) ==
  IF triplet.schema # Undefined THEN CallParser(triplet.schema, body, pb)
  ELSE Undefined

\* mutant: the handler always gets the raw body
HandlerArg_raw(body, parsed) == body

\* the argument the handler is called with
HandlerArg(body, parsed) ==
  IF parsed.tag = "parsed" /\ parsed.success THEN parsed.data ELSE body

\* mutant: anything but a successful parse counts as a failed validation
Diagnostic_unlessSuccess(triplet, body, parsed) ==
  IF parsed.tag = "parsed" /\ parsed.success THEN Undefined
  ELSE ValidationError(body, triplet.schema, Undefined)

\* mutant: the value and the schema are passed in each other's place
Diagnostic_swapped(triplet, body, parsed) ==
  IF parsed.tag = "parsed" /\ ~parsed.success
  THEN ValidationError(triplet.schema, body, parsed.error)
  ELSE Undefined

\* the second slot of the tuple run resolves with
Diagnostic(triplet, body, parsed) ==
  IF parsed.tag = "parsed" /\ ~parsed.success
  THEN ValidationError(body, triplet.schema, parsed.error)
  ELSE Undefined

\* mutant: the ParsingError carries the argument of the handler
Matched_argAsRawData(triplet, body, parsed, ht) ==
  IF parsed.tag = "threw"
  THEN Reject(ParsingError(body, HandlerName(triplet.handler), parsed.error))
  ELSE IF ht # Undefined
  THEN Reject(ParsingError(HandlerArg(body, parsed),
                           HandlerName(triplet.handler), ht))
  ELSE Resolve(CallHandler(triplet.handler, HandlerArg(body, parsed)),
               Diagnostic(triplet, body, parsed))

\* mutant: after a successful validation the ParsingError carries the
\* validator's output
Matched_validatedAsRawData(triplet, body, parsed, ht) ==
  IF parsed.tag = "threw"
  THEN Reject(ParsingError(body, HandlerName(triplet.handler), parsed.error))
  ELSE IF ht # Undefined
  THEN Reject(ParsingError(
                IF parsed.tag = "parsed" /\ parsed.success
                THEN parsed.data ELSE body,
                HandlerName(triplet.handler), ht))
  ELSE Resolve(CallHandler(triplet.handler, HandlerArg(body, parsed)),
               Diagnostic(triplet, body, parsed))

\* mutant: a failed validation aborts the run
Matched_abortOnInvalid(triplet, body, parsed, ht) ==
  IF parsed.tag = "threw"
  THEN Reject(ParsingError(body, HandlerName(triplet.handler), parsed.error))
  ELSE IF parsed.tag = "parsed" /\ ~parsed.success
  THEN Reject(Diagnostic(triplet, body, parsed))
  ELSE IF ht # Undefined
  THEN Reject(ParsingError(body, HandlerName(triplet.handler), ht))
  ELSE Resolve(CallHandler(triplet.handler, HandlerArg(body, parsed)),
               Diagnostic(triplet, body, parsed))

\* the inner try/catch: parser, handler, tuple or ParsingError.  ht is
\* what the handler throws (Undefined: it returns).
Matched(triplet, body, parsed, ht) ==
  IF parsed.tag = "threw"
  THEN Reject(ParsingError(body, HandlerName(triplet.handler), parsed.error))
  ELSE IF ht # Undefined
  THEN Reject(ParsingError(body, HandlerName(triplet.handler), ht))
  ELSE Resolve(CallHandler(triplet.handler, HandlerArg(body, parsed)),
               Diagnostic(triplet, body, parsed))

\* mutant: the handler is called before the body is validated
MatchedCalls_handlerFirst(triplet, parsed) ==
  (IF parsed.tag = "threw" THEN <<>> ELSE <<"handler">>)
  \o (IF triplet.schema # Undefined THEN <<"parser">> ELSE <<>>)

\* mutant: the branch of the failed validation does not return, and the
\* handler is called again on the way out
MatchedCalls_handlerTwice(triplet, parsed) ==
  (IF triplet.schema # Undefined THEN <<"parser">> ELSE <<>>)
  \o (IF parsed.tag = "threw" THEN <<>>
      ELSE IF parsed.tag = "parsed" /\ ~parsed.success
      THEN <<"handler", "handler">>
      ELSE <<"handler">>)

MatchedCalls(triplet, parsed) ==
  (IF triplet.schema # Undefined THEN <<"parser">> ELSE <<>>)
  \o (IF parsed.tag = "threw" THEN <<>> ELSE <<"handler">>)

\* mutant: no catch around `await this.run()`, the rejection propagates
safeRun_noCatch(outcome) ==
  IF outcome.kind = "resolve"
  THEN IF outcome.diag # Undefined THEN err(outcome.diag) ELSE ok(outcome.out)
  ELSE [status |-> "rejected", data |-> Undefined, error |-> outcome.error]

\* mutant: the diagnostic slot is not looked at
safeRun_ignoreDiag(outcome) ==
  IF outcome.kind = "resolve" THEN ok(outcome.out)
  ELSE err(IF IsError(outcome.error) THEN outcome.error
           ELSE FetcherError(outcome.error.id))

\* mutant: a rejection of run is swallowed
safeRun_swallow(outcome) ==
  IF outcome.kind = "resolve"
  THEN IF outcome.diag # Undefined THEN err(outcome.diag) ELSE ok(outcome.out)
  ELSE ok(Undefined)

\* safeRun, once the run it awaits has settled
safeRun(outcome) ==
  IF outcome.kind = "resolve"
  THEN IF outcome.diag # Undefined THEN err(outcome.diag) ELSE ok(outcome.out)
  ELSE err(IF IsError(outcome.error) THEN outcome.error
           ELSE FetcherError(outcome.error.id))

\* ----------------------------------------------------------- run, steps
\* the responses the transport answers with; one of them per status has
\* a body that was already read
Responses ==
  {rs \in [status : Statuses, contentType : ContentTypes, bodyUsed : BOOLEAN] :
     rs.bodyUsed => rs.contentType = "absent"}

\* response.clone() throws a TypeError when the body was already read
CloneTypeError == [tag |-> "error", cls |-> "Error", id |-> "TypeError"]

\* the text clone.text() resolves with
ResponseText(response) == [tag |-> "text", of |-> response]

NewRun(i, this) ==
  [f |-> i, pc |-> "awaitFetch",
   fetchArgs |-> <<this.fetch, this.input, this.init>>,
   fetchError |-> Undefined, response |-> Undefined, heap |-> <<>>,
   triplet |-> Undefined,
   body |-> Undefined, jsonError |-> Undefined, textError |-> Undefined,
   parsed |-> Undefined,
   handlerThrew |-> Undefined, fallbackThrew |-> Undefined,
   trace |-> <<"fetch">>, outcome |-> Pending, safeResult |-> Undefined]

Settle(run, outcome) == [run EXCEPT !.pc = "settled", !.outcome = outcome]

\* safeRun() is called on fetchers[i] and calls this.run(), which runs up
\* to `await this.fetch(...)`.  A direct call of run() is the same steps
\* without the last one, SafeRunSettle: runs[r].outcome is what the
\* promise of run() settles with, runs[r].safeResult what the promise of
\* safeRun() resolves with.
\* The caller makes its invocations one after the other and lets go of a
\* settled one when it makes the next.
RunStart(i) ==
  /\ nruns < MaxRuns
  /\ \A r \in RunIds : runs[r].pc = "settled"
  /\ runs' = <<NewRun(i, fetchers[i])>>
  /\ nruns' = nruns + 1
  /\ UNCHANGED <<fetchers, ncalls, compiledSchemas,
               parserCalls>>

\* mutant: a first transport failure is retried once
FetchRejects_retry(r, e) ==
  /\ runs[r].pc = "awaitFetch"
  /\ runs' = [runs EXCEPT ![r] =
        IF runs[r].fetchError = Undefined
        THEN [@ EXCEPT !.fetchError = e, !.trace = @ \o <<"fetch">>]
        ELSE Settle([@ EXCEPT !.fetchError = e],
                    OuterCatch(fetchers[runs[r].f], e))]
  /\ UNCHANGED <<fetchers, ncalls, nruns, compiledSchemas,
               parserCalls>>

\* the transport promise rejects with e: the outer catch
FetchRejects(r, e) ==
  /\ runs[r].pc = "awaitFetch"
  /\ runs' = [runs EXCEPT ![r] =
        Settle([@ EXCEPT !.fetchError = e],
               OuterCatch(fetchers[runs[r].f], e))]
  /\ UNCHANGED <<fetchers, ncalls, nruns, compiledSchemas,
               parserCalls>>

\* the transport promise resolves with response: the status lookup, then
\* either clone and the call of the extractor, or the fallbacks.
\* runs[r].heap records the instances as they are when run reads them.
FetchResolves(r, response, fb) ==
  /\ runs[r].pc = "awaitFetch"
  /\ LET this == fetchers[runs[r].f]
         triplet == Lookup(this, response.status)
         run == [runs[r] EXCEPT !.response = response, !.heap = fetchers,
                           !.triplet = triplet]
     IN IF triplet # Undefined
        THEN /\ fb = Undefined
             /\ runs' = [runs EXCEPT ![r] =
                  IF response.bodyUsed
                  THEN Settle([run EXCEPT !.trace = @ \o <<"get", "clone">>],
                              OuterCatch(this, CloneTypeError))
                  ELSE [run EXCEPT !.pc = "awaitExtract",
                          !.trace = @ \o <<"get", "clone", "extractor">>]]
        ELSE /\ UnmatchedCalls(this) = <<>> => fb = Undefined
             /\ runs' = [runs EXCEPT ![r] =
                  Settle([run EXCEPT !.fallbackThrew = fb,
                            !.trace = @ \o <<"get">> \o UnmatchedCalls(this)],
                         Unmatched(fetchers, this, response, fb))]
  /\ UNCHANGED <<fetchers, ncalls, nruns, compiledSchemas,
               parserCalls>>

\* mutant: an entry is single-use, run removes it once its handler was
\* called
ExtractResolves_oneShot(r, pb, ht) ==
  /\ runs[r].pc = "awaitExtract"
  /\ LET run == runs[r]
         triplet == run.triplet
         body == ExtractedBody(triplet.extractor, run.response)
         parsed == Validate(triplet, body, pb)
     IN /\ triplet.schema = Undefined => pb = "success"
        /\ parsed.tag = "threw" => ht = Undefined
        /\ runs' = [runs EXCEPT ![r] =
             Settle([run EXCEPT !.body = body, !.parsed = parsed,
                       !.handlerThrew = ht,
                       !.trace = @ \o MatchedCalls(triplet, parsed)],
                    Matched(triplet, body, parsed, ht))]
        /\ fetchers' = [fetchers EXCEPT
             ![run.f].handlers[run.response.status] = Undefined]
  /\ UNCHANGED <<ncalls, nruns, compiledSchemas,
               parserCalls>>

\* the extractor promise resolves: the parser, the handler, the result.
\* pb is how the parser behaves, ht what the handler throws.
ExtractResolves(r, pb, ht) ==
  /\ runs[r].pc = "awaitExtract"
  /\ LET run == runs[r]
         triplet == run.triplet
         body == ExtractedBody(triplet.extractor, run.response)
         parsed == Validate(triplet, body, pb)
     IN /\ triplet.schema = Undefined => pb = "success"
        /\ parsed.tag = "threw" => ht = Undefined
        /\ runs' = [runs EXCEPT ![r] =
             Settle([run EXCEPT !.body = body, !.parsed = parsed,
                       !.handlerThrew = ht,
                       !.trace = @ \o MatchedCalls(triplet, parsed)],
                    Matched(triplet, body, parsed, ht))]
  /\ UNCHANGED <<fetchers, ncalls, nruns, compiledSchemas,
               parserCalls>>

\* the extractor promise rejects with e: the middle catch, up to
\* `await clone.text()`
ExtractRejects(r, e) ==
  /\ runs[r].pc = "awaitExtract"
  /\ runs' = [runs EXCEPT ![r] =
        [@ EXCEPT !.pc = "awaitText", !.jsonError = e,
           !.trace = @ \o <<"text">>]]
  /\ UNCHANGED <<fetchers, ncalls, nruns, compiledSchemas,
               parserCalls>>

\* clone.text() resolves: JsonDeserializationError
\* mutant: after the decode failure the fallbacks are consulted
TextResolves_fallThrough(r) ==
  /\ runs[r].pc = "awaitText"
  /\ runs' = [runs EXCEPT ![r] =
        Settle([@ EXCEPT !.trace =
                  @ \o UnmatchedCalls(fetchers[runs[r].f])],
               IF UnmatchedCalls(fetchers[runs[r].f]) = <<>>
               THEN Reject(JsonDeserializationError(
                      @.response, ResponseText(@.response), @.jsonError))
               ELSE Unmatched(fetchers, fetchers[runs[r].f], @.response,
                              Undefined))]
  /\ UNCHANGED <<fetchers, ncalls, nruns, compiledSchemas,
               parserCalls>>

TextResolves(r) ==
  /\ runs[r].pc = "awaitText"
  /\ runs' = [runs EXCEPT ![r] =
        Settle(@, Reject(JsonDeserializationError(
                    @.response, ResponseText(@.response), @.jsonError)))]
  /\ UNCHANGED <<fetchers, ncalls, nruns, compiledSchemas,
               parserCalls>>

\* clone.text() rejects with e: the outer catch
\* mutant: the rejection of clone.text() is swallowed and run never
\* settles
TextRejects_hang(r, e) ==
  /\ runs[r].pc = "awaitText"
  /\ runs[r].textError = Undefined
  /\ runs' = [runs EXCEPT ![r] = [@ EXCEPT !.textError = e]]
  /\ UNCHANGED <<fetchers, ncalls, nruns, compiledSchemas,
               parserCalls>>

TextRejects(r, e) ==
  /\ runs[r].pc = "awaitText"
  /\ runs' = [runs EXCEPT ![r] =
        Settle([@ EXCEPT !.textError = e], OuterCatch(fetchers[@.f], e))]
  /\ UNCHANGED <<fetchers, ncalls, nruns, compiledSchemas,
               parserCalls>>

\* safeRun resumes after `await this.run()`
SafeRunSettle(r) ==
  /\ runs[r].pc = "settled"
  /\ runs[r].safeResult = Undefined
  /\ runs' = [runs EXCEPT ![r].safeResult = safeRun(runs[r].outcome)]
  /\ UNCHANGED <<fetchers, ncalls, nruns, compiledSchemas,
               parserCalls>>

Next ==
  \/ \E i \in FetcherIds, c \in Codes, t \in Triplets : Handle(i, c, t)
  \/ \E i \in FetcherIds, fn \in RestErrorFns : DiscardRestAsError(i, fn)
  \/ \E i \in FetcherIds, fn \in RestToFns : DiscardRestAsTo(i, fn)
  \/ \E i \in FetcherIds, fn \in MapFns : Map(i, fn)
  \/ \E i \in FetcherIds : RunStart(i)
  \/ \E r \in RunIds, e \in Thrown : FetchRejects(r, e)
  \/ \E r \in RunIds, response \in Responses,
        fb \in {Undefined, PlainError, ForeignFetcherError} :
          FetchResolves(r, response, fb)
  \/ \E r \in RunIds, pb \in ParserBehaviours, ht \in {Undefined, PlainError} :
          ExtractResolves(r, pb, ht)
  \/ \E r \in RunIds : ExtractRejects(r, PlainError)
  \/ \E r \in RunIds : TextResolves(r)
  \/ \E r \in RunIds, e \in {PlainError, ForeignFetcherError} : TextRejects(r, e)
  \/ \E r \in RunIds : SafeRunSettle(r)

Spec == Init /\ [][Next]_vars

TypeOK ==
  /\ ncalls \in 0..MaxCalls
  /\ Len(fetchers) \in 1..MaxFetchers
  /\ nruns \in 0..MaxRuns
  /\ Len(runs) <= 1

\* ================================================================ claims
\* run() of invocation r has settled
Settled(r) == runs[r].pc = "settled"
\* the extractor of the matched entry yielded a body
Extracted(r) == runs[r].triplet # Undefined /\ runs[r].body # Undefined
\* safeRun() of invocation r has resolved
SafeSettled(r) == runs[r].safeResult # Undefined
\* the stage was invoked during invocation r
Invoked(r, stage) == \E k \in DOMAIN runs[r].trace : runs[r].trace[k] = stage

\* C1: a response whose status has an entry with handler H and no schema,
\* and whose extractor yields body B: the parser is not invoked, the
\* handler is invoked on B, and when it returns run resolves with
\* [H(B), undefined].
C1_NoSchema ==
  \A r \in RunIds :
    (Settled(r) /\ Extracted(r) /\ runs[r].triplet.schema = Undefined) =>
      /\ ~Invoked(r, "parser")
      /\ Invoked(r, "handler")
      /\ runs[r].handlerThrew = Undefined =>
           runs[r].outcome =
             Resolve(CallHandler(runs[r].triplet.handler, runs[r].body),
                     Undefined)

C1_Witness ==
  \E r \in RunIds :
    /\ Settled(r) /\ Extracted(r)
    /\ runs[r].triplet.schema = Undefined
    /\ runs[r].handlerThrew = Undefined
    /\ runs[r].outcome.kind = "resolve"

\* C2: an entry with schema S and handler H, the parser accepts the body
\* and returns V: the handler is invoked on V, not on the raw body, and
\* when it returns run resolves with [H(V), undefined].
C2_Validated ==
  \A r \in RunIds :
    (/\ Settled(r) /\ Extracted(r)
     /\ runs[r].triplet.schema # Undefined
     /\ runs[r].parsed.tag = "parsed" /\ runs[r].parsed.success
     /\ runs[r].handlerThrew = Undefined) =>
      /\ runs[r].parsed.data # runs[r].body
      /\ runs[r].outcome =
           Resolve(CallHandler(runs[r].triplet.handler, runs[r].parsed.data),
                   Undefined)

C2_Witness ==
  \E r \in RunIds :
    /\ Settled(r) /\ Extracted(r)
    /\ runs[r].triplet.schema # Undefined
    /\ runs[r].parsed.tag = "parsed" /\ runs[r].parsed.success
    /\ runs[r].handlerThrew = Undefined
    /\ runs[r].outcome.kind = "resolve"

\* C3: an entry with schema S and handler H, the parser rejects the body B
\* and H(B) does not throw: run resolves with [H(B), D], D a
\* ValidationError.
C3_Invalid ==
  \A r \in RunIds :
    (/\ Settled(r) /\ Extracted(r)
     /\ runs[r].triplet.schema # Undefined
     /\ runs[r].parsed.tag = "parsed" /\ ~runs[r].parsed.success
     /\ runs[r].handlerThrew = Undefined) =>
      /\ runs[r].outcome.kind = "resolve"
      /\ runs[r].outcome.out =
           CallHandler(runs[r].triplet.handler, runs[r].body)
      /\ runs[r].outcome.diag # Undefined
      /\ runs[r].outcome.diag.cls = "ValidationError"

C3_Witness ==
  \E r \in RunIds :
    /\ Settled(r) /\ Extracted(r)
    /\ runs[r].parsed.tag = "parsed" /\ ~runs[r].parsed.success
    /\ runs[r].handlerThrew = Undefined
    /\ runs[r].outcome.kind = "resolve"
    /\ runs[r].outcome.diag # Undefined

\* C4: whatever run settled with, and whichever of the transport, the
\* extractor, the parser, the handler and the fallbacks threw, the promise
\* of safeRun is resolved, with a value tagged 'ok' or 'error'.
C4_SafeRunNeverRejects ==
  \A r \in RunIds :
    SafeSettled(r) => runs[r].safeResult.status \in {"ok", "error"}

\* safeRun resolved after run rejected because a user function threw
C4_Witness ==
  \E r \in RunIds :
    /\ SafeSettled(r)
    /\ runs[r].outcome.kind = "reject"
    /\ \/ runs[r].fetchError # Undefined
       \/ runs[r].handlerThrew # Undefined
       \/ runs[r].fallbackThrew # Undefined
       \/ runs[r].jsonError # Undefined

\* C5: when run resolves with a diagnostic D, safeRun resolves to
\* {status: 'error', error: D}, D a ValidationError, and carries no data.
C5_SafeRunDiagnostic ==
  \A r \in RunIds :
    (/\ SafeSettled(r)
     /\ runs[r].outcome.kind = "resolve"
     /\ runs[r].outcome.diag # Undefined) =>
      /\ runs[r].safeResult.status = "error"
      /\ runs[r].safeResult.error = runs[r].outcome.diag
      /\ runs[r].safeResult.error.cls = "ValidationError"
      /\ runs[r].safeResult.data = Undefined

C5_Witness ==
  \E r \in RunIds :
    /\ SafeSettled(r)
    /\ runs[r].outcome.kind = "resolve"
    /\ runs[r].outcome.diag # Undefined
    /\ runs[r].outcome.out # Undefined

\* C6: safeRun resolves to {status: 'ok', data: X} exactly when run
\* resolved with [X, undefined]; otherwise it resolves with status 'error'.
C6_SafeRunOkIff ==
  \A r \in RunIds :
    SafeSettled(r) =>
      /\ runs[r].safeResult.status = "ok" <=>
           (runs[r].outcome.kind = "resolve" /\ runs[r].outcome.diag = Undefined)
      /\ runs[r].safeResult.status = "ok" =>
           runs[r].safeResult.data = runs[r].outcome.out
      /\ runs[r].safeResult.status # "ok" =>
           runs[r].safeResult.status = "error"

C6_Witness ==
  \E r \in RunIds :
    /\ SafeSettled(r)
    /\ runs[r].safeResult.status = "ok"
    /\ runs[r].outcome.out # Undefined

\* the dispatcher of invocation r, as run read it after the transport call
This(r) == runs[r].heap[runs[r].f]
\* the status of the response has no entry in the registry
NoEntry(r) == runs[r].response # Undefined /\ runs[r].triplet = Undefined

\* C7: when the transport fails with E, run rejects with a NetworkError
\* carrying the request descriptor (input, init) and E as cause, nothing
\* but the transport is invoked, and safeRun resolves to
\* {status: 'error', error: <that NetworkError>}.
C7_TransportFailure ==
  \A r \in RunIds :
    (Settled(r) /\ runs[r].fetchError # Undefined) =>
      LET this == fetchers[runs[r].f]
          failure == NetworkError(this.input, this.init, runs[r].fetchError)
      IN /\ runs[r].outcome = Reject(failure)
         /\ runs[r].trace = <<"fetch">>
         /\ SafeSettled(r) => runs[r].safeResult = err(failure)

\* C8: unmatched status, only the error-fallback set: run rejects with
\* exactly the error the error-fallback returns for the response.
C8_ErrorFallback ==
  \A r \in RunIds :
    (/\ Settled(r) /\ NoEntry(r)
     /\ This(r).restErrorHandler # Undefined
     /\ This(r).restToHandler = Undefined
     /\ runs[r].fallbackThrew = Undefined) =>
      /\ Invoked(r, "restErrorHandler")
      /\ runs[r].outcome =
           Reject(CallRestError(This(r).restErrorHandler, runs[r].response))

C8_Witness ==
  \E r \in RunIds :
    /\ Settled(r) /\ NoEntry(r)
    /\ This(r).restErrorHandler # Undefined
    /\ This(r).restToHandler = Undefined
    /\ runs[r].fallbackThrew = Undefined
    /\ runs[r].outcome.kind = "reject"

\* C9: unmatched status, only the value-fallback set: run resolves with
\* [v, undefined], v the value the value-fallback produces; no extractor,
\* parser or handler is invoked.
C9_ValueFallback ==
  \A r \in RunIds :
    (/\ Settled(r) /\ NoEntry(r)
     /\ This(r).restErrorHandler = Undefined
     /\ This(r).restToHandler # Undefined
     /\ runs[r].fallbackThrew = Undefined) =>
      /\ runs[r].outcome =
           Resolve(CallRestTo(runs[r].heap, This(r).restToHandler), Undefined)
      /\ Invoked(r, "restToHandler")
      /\ ~Invoked(r, "extractor")
      /\ ~Invoked(r, "parser")
      /\ ~Invoked(r, "handler")

C9_Witness ==
  \E r \in RunIds :
    /\ Settled(r) /\ NoEntry(r)
    /\ This(r).restErrorHandler = Undefined
    /\ This(r).restToHandler # Undefined
    /\ runs[r].fallbackThrew = Undefined
    /\ runs[r].outcome.kind = "resolve"

\* C10: unmatched status, neither fallback set: run rejects with a
\* HandlerNotSetError whose code is the status of the response.
C10_HandlerNotSet ==
  \A r \in RunIds :
    (/\ Settled(r) /\ NoEntry(r)
     /\ This(r).restErrorHandler = Undefined
     /\ This(r).restToHandler = Undefined) =>
      /\ runs[r].outcome.kind = "reject"
      /\ runs[r].outcome.error.cls = "HandlerNotSetError"
      /\ runs[r].outcome.error.code = runs[r].response.status

C10_Witness ==
  \E r \in RunIds :
    /\ Settled(r) /\ NoEntry(r)
    /\ This(r).restErrorHandler = Undefined
    /\ This(r).restToHandler = Undefined
    /\ runs[r].outcome.kind = "reject"
    /\ \E c \in Statuses : This(r).handlers[c] # Undefined


\* C11: unmatched status, both fallbacks set (discardRestAsError and
\* discardRestAsTo lead to the same instance in either order): the
\* error-fallback is the one called, the value-fallback is not called, and
\* run rejects with the error the error-fallback returns.
C11_ErrorFallbackFirst ==
  \A r \in RunIds :
    (/\ Settled(r) /\ NoEntry(r)
     /\ This(r).restErrorHandler # Undefined
     /\ This(r).restToHandler # Undefined) =>
      /\ Invoked(r, "restErrorHandler")
      /\ ~Invoked(r, "restToHandler")
      /\ runs[r].outcome.kind = "reject"
      /\ runs[r].fallbackThrew = Undefined =>
           runs[r].outcome =
             Reject(CallRestError(This(r).restErrorHandler, runs[r].response))

C11_Witness ==
  \E r \in RunIds :
    /\ Settled(r) /\ NoEntry(r)
    /\ This(r).restErrorHandler # Undefined
    /\ This(r).restToHandler # Undefined
    /\ runs[r].fallbackThrew = Undefined
    /\ runs[r].outcome.kind = "reject"


\* C12: when the extractor of the matched entry fails, run rejects with a
\* JsonDeserializationError carrying the response, the text of the clone
\* taken before the extraction and the causing error; neither the parser
\* nor the handler is invoked.
C12_DecodeFailure ==
  \A r \in RunIds :
    (Settled(r) /\ runs[r].jsonError # Undefined) =>
      /\ runs[r].outcome =
           Reject(JsonDeserializationError(
                    runs[r].response, ResponseText(runs[r].response),
                    runs[r].jsonError))
      /\ runs[r].trace = <<"fetch", "get", "clone", "extractor", "text">>

\* C13: when the handler of the matched entry throws, run rejects with a
\* ParsingError carrying the extracted body, the name of the handler and
\* the thrown value, whether the validation succeeded, failed or was
\* skipped.
C13_HandlerThrows ==
  \A r \in RunIds :
    (Settled(r) /\ runs[r].handlerThrew # Undefined) =>
      /\ Extracted(r)
      /\ runs[r].outcome =
           Reject(ParsingError(runs[r].body,
                               HandlerName(runs[r].triplet.handler),
                               runs[r].handlerThrew))

\* the handler threw after the parser had accepted, and so changed, the body
C13_Witness ==
  \E r \in RunIds :
    /\ Settled(r) /\ runs[r].handlerThrew # Undefined
    /\ runs[r].parsed.tag = "parsed" /\ runs[r].parsed.success
    /\ runs[r].outcome.kind = "reject"
    /\ runs[r].outcome.error.cls = "ParsingError"


\* the four failure kinds run constructs itself
TerminalKinds ==
  {"NetworkError", "JsonDeserializationError", "ParsingError",
   "HandlerNotSetError"}

\* run resolves with a tuple [output, ValidationError or undefined]
ResolvesWithTuple(r) ==
  runs[r].outcome.kind = "resolve" =>
    \/ runs[r].outcome.diag = Undefined
    \/ runs[r].outcome.diag.cls = "ValidationError"

\* C14 as stated: every rejection of run is a NetworkError, a
\* JsonDeserializationError, a ParsingError or a HandlerNotSetError, and
\* every resolution is a tuple [output, diagnostic or undefined].
C14_FourKinds ==
  \A r \in RunIds :
    Settled(r) =>
      /\ runs[r].outcome.kind = "reject" =>
           runs[r].outcome.error.cls \in TerminalKinds
      /\ ResolvesWithTuple(r)

\* C14 amended: a rejection of run is one of the four kinds, or the error
\* the error-fallback returned for an unmatched status, or a FetcherError
\* that the transport, clone.text() or a fallback threw and that run
\* re-rejects unchanged; every resolution is a tuple.
C14_RejectionKinds ==
  \A r \in RunIds :
    Settled(r) =>
      /\ runs[r].outcome.kind = "reject" =>
           \/ runs[r].outcome.error.cls \in TerminalKinds
           \/ /\ NoEntry(r)
              /\ This(r).restErrorHandler # Undefined
              /\ runs[r].fallbackThrew = Undefined
              /\ runs[r].outcome.error =
                   CallRestError(This(r).restErrorHandler, runs[r].response)
           \/ /\ IsFetcherError(runs[r].outcome.error)
              /\ runs[r].outcome.error \in
                   {runs[r].fetchError, runs[r].textError,
                    runs[r].fallbackThrew}
      /\ ResolvesWithTuple(r)

\* run rejected with a plain Error built by the error-fallback
C14_Witness ==
  \E r \in RunIds :
    /\ Settled(r) /\ NoEntry(r)
    /\ runs[r].outcome.kind = "reject"
    /\ runs[r].outcome.error.cls = "Error"

\* C15: whenever safeRun resolves with status 'error', the error it
\* carries is an instance of FetcherError, as ErrorResult declares.
C15_SafeRunErrorKinds ==
  \A r \in RunIds :
    (SafeSettled(r) /\ runs[r].safeResult.status = "error") =>
      IsFetcherError(runs[r].safeResult.error)

\* invocation r runs on an instance that is d.map(f).map(g), d, d.map(f)
\* and d.map(f).map(g) being the instances i, j and runs[r].f of the heap
\* run read
IsMapMap(r, i, j, f, g) ==
  /\ runs[r].heap # <<>>
  /\ i \in DOMAIN runs[r].heap /\ j \in DOMAIN runs[r].heap
  /\ runs[r].heap[j] = map(runs[r].heap[i], i, f)
  /\ This(r) = map(runs[r].heap[j], j, g)

\* C16: d.map(f).map(g) yields the run outcome of d.map(x => g(f(x))), for
\* every response, on the matched path when the handler returns (with and
\* without a validation diagnostic) and on the value-fallback path.
C16_MapComposition ==
  \A r \in RunIds : \A f \in MapFns, g \in MapFns :
    \A i \in 1..MaxFetchers, j \in 1..MaxFetchers :
      (/\ Settled(r) /\ IsMapMap(r, i, j, f, g)
       /\ runs[r].outcome.kind = "resolve") =>
        LET composed == map(runs[r].heap[i], i, f \o g)
            entry == Lookup(composed, runs[r].response.status)
        IN IF runs[r].triplet # Undefined
           THEN /\ entry # Undefined
                /\ entry.schema = runs[r].triplet.schema
                /\ entry.extractor = runs[r].triplet.extractor
                /\ runs[r].outcome =
                     Matched(entry, runs[r].body, runs[r].parsed,
                             runs[r].handlerThrew)
           ELSE /\ entry = Undefined
                /\ runs[r].outcome =
                     Unmatched(runs[r].heap, composed, runs[r].response,
                               runs[r].fallbackThrew)

C16_Witness ==
  \E r \in RunIds : \E f \in MapFns, g \in MapFns :
    \E i \in 1..MaxFetchers, j \in 1..MaxFetchers :
      /\ Settled(r) /\ IsMapMap(r, i, j, f, g) /\ f # g
      /\ Extracted(r)
      /\ runs[r].outcome.kind = "resolve"
      /\ runs[r].outcome.diag # Undefined
      /\ runs[r].outcome.out =
           ApplyFn(g[1], ApplyFn(f[1],
             ApplyFn(runs[r].triplet.handler.base, runs[r].body)))

\* invocation r runs on an instance that is d.map(fn), d being instance i
\* of the heap run read
IsMap(r, i, fn) ==
  /\ runs[r].heap # <<>>
  /\ i \in DOMAIN runs[r].heap
  /\ This(r) = map(runs[r].heap[i], i, fn)

\* C17: for m = d.map(f): on a matched status with handler H, m.run yields
\* f(H(x)) in the output slot, with the schema and the extractor d
\* registered for that status and the diagnostic slot d.run has; on an
\* unmatched status with only a value-fallback producing v, m.run
\* resolves with [f(v), undefined].
C17_MapHandlers ==
  \A r \in RunIds : \A fn \in MapFns : \A i \in 1..MaxFetchers :
    (Settled(r) /\ IsMap(r, i, fn)) =>
      LET d == runs[r].heap[i]
          entry == Lookup(d, runs[r].response.status)
      IN /\ (entry # Undefined) <=> (runs[r].triplet # Undefined)
         /\ (entry # Undefined /\ runs[r].outcome.kind = "resolve") =>
              /\ runs[r].triplet.schema = entry.schema
              /\ runs[r].triplet.extractor = entry.extractor
              /\ runs[r].body =
                   ExtractedBody(entry.extractor, runs[r].response)
              /\ runs[r].outcome.out =
                   ApplyAll(fn, CallHandler(entry.handler,
                                  HandlerArg(runs[r].body, runs[r].parsed)))
              /\ runs[r].outcome.diag =
                   Diagnostic(entry, runs[r].body, runs[r].parsed)
              /\ Matched(entry, runs[r].body, runs[r].parsed, Undefined)
                   = Resolve(CallHandler(entry.handler,
                               HandlerArg(runs[r].body, runs[r].parsed)),
                             runs[r].outcome.diag)
         /\ (/\ entry = Undefined
             /\ d.restErrorHandler = Undefined
             /\ d.restToHandler # Undefined
             /\ runs[r].fallbackThrew = Undefined) =>
              runs[r].outcome =
                Resolve(ApplyAll(fn, CallRestTo(runs[r].heap,
                                                d.restToHandler)),
                        Undefined)

C17_Witness ==
  \E r \in RunIds : \E fn \in MapFns : \E i \in 1..MaxFetchers :
    /\ Settled(r) /\ IsMap(r, i, fn)
    /\ Extracted(r)
    /\ runs[r].triplet.schema # Undefined
    /\ runs[r].triplet.extractor = "customExtractor"
    /\ runs[r].outcome.kind = "resolve"
    /\ runs[r].outcome.out =
         ApplyFn(fn[1], ApplyFn(runs[r].heap[i].handlers[
                   runs[r].response.status].handler.base, runs[r].body))

\* C18: for m = d.map(f), d with an error-fallback: on an unmatched status
\* m.run rejects with exactly the error d's error-fallback returns for
\* that response, and f is not applied.
C18_MapErrorFallback ==
  \A r \in RunIds : \A fn \in MapFns : \A i \in 1..MaxFetchers :
    (/\ Settled(r) /\ IsMap(r, i, fn) /\ NoEntry(r)
     /\ runs[r].heap[i].restErrorHandler # Undefined
     /\ runs[r].fallbackThrew = Undefined) =>
      /\ runs[r].outcome =
           Reject(CallRestError(runs[r].heap[i].restErrorHandler,
                                runs[r].response))
      /\ runs[r].outcome =
           Unmatched(runs[r].heap, runs[r].heap[i], runs[r].response,
                     Undefined)
      /\ runs[r].trace = <<"fetch", "get", "restErrorHandler">>

C18_Witness ==
  \E r \in RunIds : \E fn \in MapFns : \E i \in 1..MaxFetchers :
    /\ Settled(r) /\ IsMap(r, i, fn) /\ NoEntry(r)
    /\ runs[r].heap[i].restErrorHandler # Undefined
    /\ runs[r].heap[i].restToHandler # Undefined
    /\ runs[r].outcome.kind = "reject"
    /\ runs[r].outcome.error.id \in RestErrorFns

\* C19: map does not mutate the instance it is called on: a step that
\* allocates an instance (only map does) adds exactly one instance and
\* leaves every instance there was with its registry entries and both its
\* fallback slots, and what run yields on it, for every response and
\* whatever the fallback does, is what it yielded before.
C19_MapFrame ==
  [][Len(fetchers') # Len(fetchers) =>
       /\ Len(fetchers') = Len(fetchers) + 1
       /\ \A i \in DOMAIN fetchers :
            /\ fetchers'[i].handlers = fetchers[i].handlers
            /\ fetchers'[i].restToHandler = fetchers[i].restToHandler
            /\ fetchers'[i].restErrorHandler = fetchers[i].restErrorHandler
            /\ fetchers'[i] = fetchers[i]
            /\ \A response \in Responses :
                 /\ Lookup(fetchers'[i], response.status)
                      = Lookup(fetchers[i], response.status)
                 /\ \A fb \in Thrown \cup {Undefined} :
                      Unmatched(fetchers', fetchers'[i], response, fb)
                        = Unmatched(fetchers, fetchers[i], response, fb)
  ]_vars

\* a run on d made after d.map(fn) resolves with d's un-mapped output
C19_Witness ==
  \E r \in RunIds : \E fn \in MapFns : \E j \in 1..MaxFetchers :
    /\ Settled(r) /\ Extracted(r)
    /\ j \in DOMAIN runs[r].heap /\ j # runs[r].f
    /\ runs[r].heap[j] = map(This(r), runs[r].f, fn)
    /\ runs[r].outcome.kind = "resolve"
    /\ runs[r].outcome.out =
         ApplyFn(runs[r].triplet.handler.base,
                 HandlerArg(runs[r].body, runs[r].parsed))

\* C20: duplicate registration is last-write-wins: handle(c, h2, s2, e2),
\* also when c already has an entry (h1, s1, e1), leaves the registry with
\* one entry for c, equal to (h2, s2, e2), the entries of the other codes
\* and the fallbacks as they were; and a response with status c is
\* dispatched through the entry the registry holds, its extractor, schema
\* and handler and no other.
C20_LastWriteWins ==
  /\ [][\A i \in DOMAIN fetchers : \A c \in Codes : \A t \in Triplets :
          Handle(i, c, t) =>
            /\ fetchers'[i].handlers[c] = t
            /\ Lookup(fetchers'[i], c) = t
            /\ \A c2 \in Statuses \ {c} :
                 fetchers'[i].handlers[c2] = fetchers[i].handlers[c2]
            /\ fetchers'[i].restToHandler = fetchers[i].restToHandler
            /\ fetchers'[i].restErrorHandler = fetchers[i].restErrorHandler
            /\ \A k \in DOMAIN fetchers \ {i} : fetchers'[k] = fetchers[k]
     ]_vars
  /\ [](\A r \in RunIds :
          (Settled(r) /\ Extracted(r)) =>
            LET t == This(r).handlers[runs[r].response.status]
            IN /\ runs[r].triplet = t
               /\ runs[r].body = ExtractedBody(t.extractor, runs[r].response)
               /\ Invoked(r, "parser") <=> t.schema # Undefined
               /\ runs[r].parsed = Undefined <=> t.schema = Undefined
               /\ runs[r].outcome =
                    Matched(t, runs[r].body, runs[r].parsed,
                            runs[r].handlerThrew))

\* two handle calls on one code of one instance, then a response with that
\* code dispatched through the entry of the second call
C20_Witness ==
  \E r \in RunIds : \E c \in Codes :
    /\ Len(fetchers) = 1 /\ ncalls = 2
    /\ fetchers[1].restToHandler = Undefined
    /\ fetchers[1].restErrorHandler = Undefined
    /\ \A c2 \in Statuses : fetchers[1].handlers[c2] # Undefined <=> c2 = c
    /\ Settled(r) /\ Extracted(r)
    /\ runs[r].response.status = c
    /\ runs[r].outcome.kind = "resolve"
    /\ runs[r].outcome.out =
         ApplyFn(fetchers[1].handlers[c].handler.base,
                 HandlerArg(runs[r].body, runs[r].parsed))

\* the number of times the stage was invoked during invocation r
Count(r, stage) ==
  Cardinality({k \in DOMAIN runs[r].trace : runs[r].trace[k] = stage})

\* C21: every invocation of run, and of safeRun, calls the injected
\* transport exactly once, first of all, with the request descriptor
\* (input, init) the instance stores; a transport failure is not retried:
\* the invocation settles with it.
C21_OneTransportCall ==
  \A r \in RunIds :
    /\ Count(r, "fetch") = 1
    /\ runs[r].trace[1] = "fetch"
    /\ runs[r].fetchArgs = <<fetchers[runs[r].f].fetch,
                             fetchers[runs[r].f].input,
                             fetchers[runs[r].f].init>>
    /\ runs[r].fetchError # Undefined =>
         /\ Settled(r)
         /\ runs[r].trace = <<"fetch">>
         /\ runs[r].outcome = OuterCatch(fetchers[runs[r].f],
                                         runs[r].fetchError)

C21_Witness ==
  \E r \in RunIds :
    /\ runs[r].fetchError # Undefined
    /\ SafeSettled(r)
    /\ runs[r].safeResult.status = "error"
    /\ Count(r, "fetch") = 1

\* C22: the default extractor, the one an entry registered without an
\* extractor has, decodes the body as JSON iff the content-type header is
\* present and contains application/json; otherwise, also when the header
\* is absent, as text.
C22_DefaultExtractor ==
  /\ \A response \in Responses :
       /\ defaultExtractor(response).via \in {"json", "text"}
       /\ defaultExtractor(response).via = "json" <=>
            response.contentType \in
              {"application/json", "application/json; charset=utf-8"}
       /\ response.contentType \in {"absent", "text/plain"} =>
            defaultExtractor(response).via = "text"
  /\ \A r \in RunIds :
       (Extracted(r) /\ runs[r].triplet.extractor = "defaultExtractor") =>
         /\ runs[r].body.via = "json" <=>
              runs[r].response.contentType \in
                {"application/json", "application/json; charset=utf-8"}
         /\ runs[r].body.via = "text" <=>
              runs[r].response.contentType \in {"absent", "text/plain"}

C22_Witness ==
  \E r \in RunIds :
    /\ Settled(r) /\ Extracted(r)
    /\ runs[r].triplet.extractor = "defaultExtractor"
    /\ runs[r].response.contentType = "application/json; charset=utf-8"
    /\ runs[r].body.via = "json"
    /\ runs[r].outcome.kind = "resolve"

\* C23: the validation diagnostic run returns when validation fails
\* carries the offending value (the extracted body), the schema of the
\* matched entry and the diagnostic the validation capability produced.
C23_ValidationDiagnostic ==
  \A r \in RunIds :
    (/\ Settled(r) /\ Extracted(r)
     /\ runs[r].parsed.tag = "parsed" /\ ~runs[r].parsed.success
     /\ runs[r].handlerThrew = Undefined) =>
      LET entry == This(r).handlers[runs[r].response.status]
          diag == runs[r].outcome.diag
      IN /\ runs[r].outcome.kind = "resolve"
         /\ diag.cls = "ValidationError"
         /\ diag.value = ExtractedBody(entry.extractor, runs[r].response)
         /\ diag.value.tag = "body"
         /\ diag.schema = entry.schema
         /\ diag.schema.tag = "schema"
         /\ diag.validationError =
              CallParser(entry.schema, diag.value, "failure").error
         /\ IsError(diag.validationError)
         /\ runs[r].safeResult # Undefined =>
              runs[r].safeResult = err(diag)

C23_Witness ==
  \E r \in RunIds :
    /\ SafeSettled(r) /\ Extracted(r)
    /\ runs[r].triplet.extractor = "customExtractor"
    /\ runs[r].parsed.tag = "parsed" /\ ~runs[r].parsed.success
    /\ runs[r].outcome.kind = "resolve"
    /\ runs[r].outcome.diag.cls = "ValidationError"
    /\ runs[r].outcome.diag.value = runs[r].body

\* a fallback was invoked during invocation r
FallbackInvoked(r) ==
  Invoked(r, "restErrorHandler") \/ Invoked(r, "restToHandler")

\* C24: the fallbacks are consulted only when no entry matches the status
\* of the response: when an entry matches, neither fallback is invoked
\* during that run, also when extraction fails, validation fails or the
\* handler throws, and the run does not settle with a fallback's result.
C24_FallbacksOnlyUnmatched ==
  \A r \in RunIds :
    /\ FallbackInvoked(r) => NoEntry(r)
    /\ runs[r].triplet # Undefined =>
         /\ ~FallbackInvoked(r)
         /\ runs[r].fallbackThrew = Undefined
         /\ (Settled(r) /\ This(r).restErrorHandler # Undefined) =>
              runs[r].outcome #
                Reject(CallRestError(This(r).restErrorHandler,
                                     runs[r].response))
         /\ (Settled(r) /\ This(r).restToHandler # Undefined) =>
              runs[r].outcome #
                Resolve(CallRestTo(runs[r].heap, This(r).restToHandler),
                        Undefined)

\* an entry matched on an instance with a fallback, and the extraction
\* failed
C24_Witness ==
  \E r \in RunIds :
    /\ Settled(r)
    /\ runs[r].triplet # Undefined
    /\ runs[r].jsonError # Undefined
    /\ This(r).restErrorHandler # Undefined
    /\ runs[r].outcome.kind = "reject"
    /\ runs[r].outcome.error.cls = "JsonDeserializationError"
    /\ ~FallbackInvoked(r)

\* C25: after any sequence of builder calls at most one of the two
\* fallbacks is set on a dispatcher.
C25_AtMostOneFallback ==
  \A i \in FetcherIds :
    ~(/\ fetchers[i].restErrorHandler # Undefined
      /\ fetchers[i].restToHandler # Undefined)

\* C25, amended: both fallbacks can be set on a dispatcher at once:
\* registering one leaves the other slot as it was and no builder call
\* clears a slot that is set; at most one of the two is invoked in a run.
C25_FallbackSlots ==
  /\ [][\A i \in DOMAIN fetchers :
          /\ fetchers[i].restErrorHandler # Undefined =>
               fetchers'[i].restErrorHandler # Undefined
          /\ fetchers[i].restToHandler # Undefined =>
               fetchers'[i].restToHandler # Undefined
          /\ \A fn \in RestErrorFns :
               DiscardRestAsError(i, fn) =>
                 /\ fetchers'[i].restErrorHandler # Undefined
                 /\ fetchers'[i].restToHandler = fetchers[i].restToHandler
          /\ \A fn \in RestToFns :
               DiscardRestAsTo(i, fn) =>
                 /\ fetchers'[i].restToHandler # Undefined
                 /\ fetchers'[i].restErrorHandler
                      = fetchers[i].restErrorHandler
     ]_vars
  /\ [](\A r \in RunIds :
          Count(r, "restErrorHandler") + Count(r, "restToHandler") <= 1)

\* both fallbacks set on the instance of a run with an unmatched status
C25_Witness ==
  \E r \in RunIds :
    /\ Settled(r) /\ NoEntry(r)
    /\ This(r).restErrorHandler # Undefined
    /\ This(r).restToHandler # Undefined
    /\ fetchers[runs[r].f] = This(r)
    /\ Count(r, "restErrorHandler") + Count(r, "restToHandler") = 1

\* the responses whose status has no entry on the instance
UnmatchedResponses(this) ==
  {response \in Responses : Lookup(this, response.status) = Undefined}

\* C26: with both fallbacks registered the one registered last is used for
\* an unmatched status: registering the value-fallback after the
\* error-fallback makes run resolve with the fallback value, registering
\* the error-fallback after the value-fallback makes run reject with the
\* fallback error.
C26_LastFallbackWins ==
  [][\A i \in DOMAIN fetchers :
       /\ \A fn \in RestToFns :
            (DiscardRestAsTo(i, fn)
             /\ fetchers[i].restErrorHandler # Undefined) =>
              \A response \in UnmatchedResponses(fetchers'[i]) :
                Unmatched(fetchers', fetchers'[i], response, Undefined)
                  = Resolve(CallRestTo(fetchers', fetchers'[i].restToHandler),
                            Undefined)
       /\ \A fn \in RestErrorFns :
            (DiscardRestAsError(i, fn)
             /\ fetchers[i].restToHandler # Undefined) =>
              \A response \in UnmatchedResponses(fetchers'[i]) :
                Unmatched(fetchers', fetchers'[i], response, Undefined)
                  = Reject(CallRestError(fetchers'[i].restErrorHandler,
                                         response))
  ]_vars

\* C26, amended: with both fallbacks registered, in either order, an
\* unmatched status makes run reject with the error the error-fallback
\* returns; the value-fallback is not called.
C26_ErrorFallbackWins ==
  /\ [][\A i \in DOMAIN fetchers :
          /\ \A fn \in RestToFns :
               (DiscardRestAsTo(i, fn)
                /\ fetchers[i].restErrorHandler # Undefined) =>
                 \A response \in UnmatchedResponses(fetchers'[i]) :
                   Unmatched(fetchers', fetchers'[i], response, Undefined)
                     = Reject(CallRestError(fetchers[i].restErrorHandler,
                                            response))
          /\ \A fn \in RestErrorFns :
               (DiscardRestAsError(i, fn)
                /\ fetchers[i].restToHandler # Undefined) =>
                 \A response \in UnmatchedResponses(fetchers'[i]) :
                   Unmatched(fetchers', fetchers'[i], response, Undefined)
                     = Reject(CallRestError([tag |-> "fn", fn |-> fn],
                                            response))
     ]_vars
  /\ [](\A r \in RunIds :
          (/\ Settled(r) /\ NoEntry(r)
           /\ This(r).restErrorHandler # Undefined
           /\ This(r).restToHandler # Undefined) =>
            /\ ~Invoked(r, "restToHandler")
            /\ runs[r].fallbackThrew = Undefined =>
                 runs[r].outcome.kind = "reject")

\* the two registrations and nothing else, then an unmatched status
C26_Witness ==
  \E r \in RunIds :
    /\ Len(fetchers) = 1 /\ ncalls = 2
    /\ fetchers[1].handlers = NoHandlers
    /\ fetchers[1].restErrorHandler # Undefined
    /\ fetchers[1].restToHandler # Undefined
    /\ Settled(r) /\ NoEntry(r)
    /\ runs[r].outcome.kind = "reject"
    /\ runs[r].outcome.error.cls = "Error"

\* C27: handle returns a new fetcher with the handler registered, an
\* instance distinct from the one it was called on, which it leaves as it
\* was: two fetchers derived from a common base by different handle calls
\* share no registry entry.
C27_HandleReturnsNew ==
  [][\A i \in DOMAIN fetchers : \A c \in Codes : \A t \in Triplets :
       Handle(i, c, t) =>
         /\ Len(fetchers') = Len(fetchers) + 1
         /\ fetchers'[i] = fetchers[i]
         /\ fetchers'[Len(fetchers')] =
              handle(fetchers[i], c, t.handler, t.schema, t.extractor)
  ]_vars

\* C28: within a run, after the transport call, the extractor of the
\* matched entry is invoked at most once, the validation capability at
\* most once and only if the entry has a schema, the handler at most
\* once; on every resolving matched path the extractor and the handler are
\* invoked exactly once.
C28_AtMostOnce ==
  \A r \in RunIds :
    /\ Count(r, "get") <= 1
    /\ Count(r, "clone") <= 1
    /\ Count(r, "extractor") <= 1
    /\ Count(r, "parser") <= 1
    /\ Count(r, "handler") <= 1
    /\ Count(r, "parser") = 1 =>
         /\ runs[r].triplet # Undefined
         /\ runs[r].triplet.schema # Undefined
    /\ Count(r, "extractor") = 1 => runs[r].triplet # Undefined
    /\ (/\ Settled(r) /\ runs[r].triplet # Undefined
        /\ runs[r].outcome.kind = "resolve") =>
         /\ Count(r, "extractor") = 1
         /\ Count(r, "handler") = 1
         /\ Count(r, "parser") =
              IF runs[r].triplet.schema # Undefined THEN 1 ELSE 0

\* a resolving matched run whose validation failed
C28_Witness ==
  \E r \in RunIds :
    /\ Settled(r) /\ Extracted(r)
    /\ runs[r].outcome.kind = "resolve"
    /\ runs[r].outcome.diag # Undefined
    /\ Count(r, "extractor") = 1
    /\ Count(r, "parser") = 1
    /\ Count(r, "handler") = 1

\* the place of a stage in the program order of run
StageRank ==
  [stage \in {"fetch", "get", "clone", "extractor", "parser", "handler"} |->
     CASE stage = "fetch" -> 1 [] stage = "get" -> 2 [] stage = "clone" -> 3
       [] stage = "extractor" -> 4 [] stage = "parser" -> 5
       [] stage = "handler" -> 6]

\* C29: the stages of a run come in strict order: the status lookup only
\* after the transport call has completed, the extractor only after a
\* registry match, the validator only after the extraction has completed
\* successfully, the handler only after the validation has returned or was
\* skipped because the entry has no schema; no stage starts before its
\* predecessor has finished.
C29_StageOrder ==
  \A r \in RunIds :
    /\ \A k \in DOMAIN runs[r].trace, l \in DOMAIN runs[r].trace :
         (/\ k < l
          /\ runs[r].trace[k] \in DOMAIN StageRank
          /\ runs[r].trace[l] \in DOMAIN StageRank) =>
           StageRank[runs[r].trace[k]] < StageRank[runs[r].trace[l]]
    /\ runs[r].pc = "awaitFetch" => runs[r].trace = <<"fetch">>
    /\ Invoked(r, "get") =>
         /\ runs[r].response # Undefined
         /\ runs[r].fetchError = Undefined
    /\ Invoked(r, "extractor") =>
         /\ runs[r].triplet # Undefined
         /\ runs[r].triplet = Lookup(This(r), runs[r].response.status)
    /\ runs[r].pc = "awaitExtract" =>
         /\ runs[r].trace = <<"fetch", "get", "clone", "extractor">>
         /\ runs[r].body = Undefined
    /\ Invoked(r, "parser") =>
         /\ Invoked(r, "extractor")
         /\ runs[r].body # Undefined
         /\ runs[r].jsonError = Undefined
    /\ Invoked(r, "handler") =>
         /\ Invoked(r, "extractor")
         /\ runs[r].body # Undefined
         /\ IF runs[r].triplet.schema = Undefined
            THEN ~Invoked(r, "parser") /\ runs[r].parsed = Undefined
            ELSE Invoked(r, "parser") /\ runs[r].parsed.tag = "parsed"

C29_Witness ==
  \E r \in RunIds :
    /\ Settled(r)
    /\ runs[r].trace =
         <<"fetch", "get", "clone", "extractor", "parser", "handler">>
    /\ runs[r].outcome.kind = "resolve"

\* C30: run rejects with a NetworkError iff the transport call itself
\* failed: no failure after the transport has returned a response
\* (cloning it, reading the text of the clone, a throwing fallback) is
\* reported as a NetworkError.
C30_NetworkIffTransport ==
  \A r \in RunIds :
    Settled(r) =>
      ((/\ runs[r].outcome.kind = "reject"
        /\ runs[r].outcome.error.cls = "NetworkError")
       <=> runs[r].fetchError # Undefined)

\* C31: run rejects with a ParsingError iff the registered handler itself
\* threw: an exception the validation capability raises before the handler
\* is invoked is not reported as a ParsingError.
C31_ParsingErrorIffHandlerThrew ==
  \A r \in RunIds :
    Settled(r) =>
      ((/\ runs[r].outcome.kind = "reject"
        /\ runs[r].outcome.error.cls = "ParsingError")
       <=> (Invoked(r, "handler") /\ runs[r].handlerThrew # Undefined))

\* C32: the data attached to a ParsingError is the value that was passed
\* to the handler: the validator's output V when validation succeeded and
\* the handler threw on V, the extracted body when validation failed or
\* was skipped.
C32_RawDataIsHandlerInput ==
  \A r \in RunIds :
    (Settled(r) /\ runs[r].handlerThrew # Undefined) =>
      /\ runs[r].outcome.kind = "reject"
      /\ runs[r].outcome.error.cls = "ParsingError"
      /\ runs[r].outcome.error.rawData =
           IF runs[r].parsed.tag = "parsed" /\ runs[r].parsed.success
           THEN runs[r].parsed.data
           ELSE runs[r].body

\* C32, amended: the data attached to a ParsingError is the extracted body
\* in every case: it is the value passed to the handler when validation
\* failed or was skipped; when validation succeeded with V and the handler
\* threw on V it is the body V was validated from, not V.
C32_RawDataIsBody ==
  \A r \in RunIds :
    (/\ Settled(r)
     /\ runs[r].outcome.kind = "reject"
     /\ runs[r].outcome.error.cls = "ParsingError") =>
      LET entry == This(r).handlers[runs[r].response.status]
          rawData == runs[r].outcome.error.rawData
      IN /\ rawData = ExtractedBody(entry.extractor, runs[r].response)
         /\ rawData.tag = "body"
         /\ runs[r].handlerThrew # Undefined =>
              IF runs[r].parsed.tag = "parsed" /\ runs[r].parsed.success
              THEN /\ HandlerArg(runs[r].body, runs[r].parsed)
                        = runs[r].parsed.data
                   /\ rawData # runs[r].parsed.data
                   /\ rawData = runs[r].parsed.data.of
              ELSE rawData = HandlerArg(runs[r].body, runs[r].parsed)

\* the handler threw on the validator's output
C32_Witness ==
  \E r \in RunIds :
    /\ Settled(r) /\ runs[r].handlerThrew # Undefined
    /\ runs[r].parsed.tag = "parsed" /\ runs[r].parsed.success
    /\ runs[r].outcome.kind = "reject"
    /\ runs[r].outcome.error.cls = "ParsingError"
    /\ runs[r].outcome.error.rawData = runs[r].body
    /\ runs[r].outcome.error.rawData # runs[r].parsed.data
    /\ runs[r].triplet.extractor = "customExtractor"

\* what a builder call on instance i must leave alone whatever it
\* registers: the other instances and the construction arguments of i
OthersUnchanged(i) ==
  /\ Len(fetchers') = Len(fetchers)
  /\ \A k \in DOMAIN fetchers \ {i} : fetchers'[k] = fetchers[k]
  /\ fetchers'[i].input = fetchers[i].input
  /\ fetchers'[i].init = fetchers[i].init
  /\ fetchers'[i].parser = fetchers[i].parser
  /\ fetchers'[i].fetch = fetchers[i].fetch
  /\ runs' = runs

\* C33: each builder registration changes only its own slot: handle(c, ...)
\* only the registry entry for c, leaving the other entries and both
\* fallback slots; discardRestAsError only the error-fallback slot, not
\* clearing the value-fallback; discardRestAsTo only the value-fallback
\* slot, not clearing the error-fallback.
C33_BuilderFrame ==
  [][\A i \in DOMAIN fetchers :
       /\ \A c \in Codes : \A t \in Triplets :
            Handle(i, c, t) =>
              /\ OthersUnchanged(i)
              /\ [fetchers'[i] EXCEPT !.handlers[c] = Undefined]
                   = [fetchers[i] EXCEPT !.handlers[c] = Undefined]
              /\ fetchers'[i].handlers[c] # Undefined
       /\ \A fn \in RestErrorFns :
            DiscardRestAsError(i, fn) =>
              /\ OthersUnchanged(i)
              /\ [fetchers'[i] EXCEPT !.restErrorHandler = Undefined]
                   = [fetchers[i] EXCEPT !.restErrorHandler = Undefined]
              /\ fetchers'[i].restErrorHandler = [tag |-> "fn", fn |-> fn]
       /\ \A fn \in RestToFns :
            DiscardRestAsTo(i, fn) =>
              /\ OthersUnchanged(i)
              /\ [fetchers'[i] EXCEPT !.restToHandler = Undefined]
                   = [fetchers[i] EXCEPT !.restToHandler = Undefined]
              /\ fetchers'[i].restToHandler = [tag |-> "fn", fn |-> fn]
  ]_vars

\* an instance on which an entry was registered next to another entry and
\* a fallback, all three still there
C33_Witness ==
  /\ Len(fetchers) = 1 /\ ncalls = 3
  /\ \A c \in Codes : fetchers[1].handlers[c] # Undefined
  /\ \/ fetchers[1].restToHandler # Undefined
     \/ fetchers[1].restErrorHandler # Undefined

\* what run on instance j of heap fs settles with for a response whose
\* status has no entry, fb being what the fallback throws
UnmatchedOutcomes(fs, j) ==
  [response \in UnmatchedResponses(fs[j]), fb \in Thrown \cup {Undefined} |->
     Unmatched(fs, fs[j], response, fb)]

\* C34: an instance produced by map shares no mutable state with its
\* source: a builder call on one instance leaves what run yields on every
\* other instance as it was, for every response, the value-fallback path
\* included.
C34_NoSharedState ==
  [][\A i \in DOMAIN fetchers : \A j \in DOMAIN fetchers \ {i} :
       (Len(fetchers') = Len(fetchers) /\ fetchers'[i] # fetchers[i]) =>
         /\ \A status \in Statuses :
              Lookup(fetchers'[j], status) = Lookup(fetchers[j], status)
         /\ UnmatchedOutcomes(fetchers', j) = UnmatchedOutcomes(fetchers, j)
  ]_vars

\* C35: the outcome of a run is determined by the registry and the
\* fallback slots as they were when run was called: while a run is
\* suspended waiting for the transport, a builder call on its instance
\* does not change the handler or fallback the run dispatches to.
C35_DispatchFixedAtCall ==
  [][\A r \in DOMAIN runs :
       (/\ r \in DOMAIN runs'
        /\ runs[r].pc = "awaitFetch" /\ runs'[r] = runs[r]) =>
         /\ \A status \in Statuses :
              Lookup(fetchers'[runs[r].f], status)
                = Lookup(fetchers[runs[r].f], status)
         /\ UnmatchedCalls(fetchers'[runs[r].f])
              = UnmatchedCalls(fetchers[runs[r].f])
  ]_vars

\* ------------------------------------------------------ overlapping runs
\* run()/safeRun() is called on fetchers[i] while earlier invocations may
\* still be pending: the caller keeps every invocation it made
RunStartOverlap(i) ==
  /\ Len(runs) < MaxOverlap
  /\ runs' = Append(runs, NewRun(i, fetchers[i]))
  /\ nruns' = nruns + 1
  /\ UNCHANGED <<fetchers, ncalls, compiledSchemas,
               parserCalls>>

\* the responses the transport answers with in SpecOverlap
OverlapResponses ==
  {rs \in Responses : /\ rs.status \in {200, 500}
                      /\ rs.contentType \in {"absent", "application/json"}}

\* the same program with a caller that overlaps its invocations, a
\* registry of one code and the value-fallback
NextOverlap ==
  \/ \E i \in FetcherIds, t \in Triplets :
        t.extractor = "defaultExtractor" /\ Handle(i, 200, t)
  \/ \E i \in FetcherIds : DiscardRestAsTo(i, "dflt")
  \/ \E i \in FetcherIds : RunStartOverlap(i)
  \/ \E r \in RunIds : FetchRejects(r, PlainError)
  \/ \E r \in RunIds, response \in OverlapResponses,
        fb \in {Undefined, PlainError} : FetchResolves(r, response, fb)
  \/ \E r \in RunIds, pb \in ParserBehaviours, ht \in {Undefined, PlainError} :
        ExtractResolves(r, pb, ht)
  \/ \E r \in RunIds : ExtractRejects(r, PlainError)
  \/ \E r \in RunIds : TextResolves(r)
  \/ \E r \in RunIds : TextRejects(r, PlainError)
  \/ \E r \in RunIds : SafeRunSettle(r)

SpecOverlap == Init /\ [][NextOverlap]_vars

\* what the environment did to invocation r: what the transport, the
\* extractor, clone.text(), the parser, the handler and the fallback
\* answered or threw
Environment(r) ==
  <<runs[r].fetchError, runs[r].response, runs[r].jsonError,
    runs[r].textError, runs[r].parsed, runs[r].handlerThrew,
    runs[r].fallbackThrew>>

\* C36: run and safeRun leave the dispatcher unchanged (registry, both
\* fallback slots, request descriptor, transport, parser), so sequential
\* or overlapping runs on the same dispatcher are independent: a step of
\* one invocation changes no other invocation, each makes its own single
\* transport call, and two runs on the same dispatcher that receive equal
\* responses and equal answers of the functions they call settle alike.
C36_RunsIndependent ==
  /\ [][/\ runs' # runs => fetchers' = fetchers
        /\ \A r1 \in DOMAIN runs, r2 \in DOMAIN runs :
             (r1 # r2 /\ Len(runs') = Len(runs)) =>
               (runs'[r1] = runs[r1] \/ runs'[r2] = runs[r2])
        /\ Len(runs') # Len(runs) =>
             /\ Len(runs') = Len(runs) + 1
             /\ \A r \in DOMAIN runs : runs'[r] = runs[r]
     ]_vars
  /\ [](\A r \in RunIds : Count(r, "fetch") = 1)
  /\ [](\A r1 \in RunIds, r2 \in RunIds :
          (/\ Settled(r1) /\ Settled(r2)
           /\ runs[r1].f = runs[r2].f
           /\ runs[r1].heap = runs[r2].heap
           /\ Environment(r1) = Environment(r2)) =>
            /\ runs[r1].outcome = runs[r2].outcome
            /\ (SafeSettled(r1) /\ SafeSettled(r2)) =>
                 runs[r1].safeResult = runs[r2].safeResult)

\* two invocations on one instance got equal responses; the first has
\* resolved while the second is still waiting for its extractor
C36_Witness ==
  \E r1 \in RunIds, r2 \in RunIds :
    /\ r1 # r2
    /\ runs[r1].f = runs[r2].f
    /\ runs[r1].response # Undefined
    /\ runs[r1].response = runs[r2].response
    /\ Settled(r1) /\ runs[r1].outcome.kind = "resolve"
    /\ runs[r2].pc = "awaitExtract"

\* the construction arguments of an instance
Construction(this) == <<this.input, this.init, this.fetch, this.parser>>

\* C37: the request descriptor (input, init), the transport and the
\* validation capability of a dispatcher are fixed at construction: no
\* builder call and no run changes them, and every dispatcher derived from
\* it by map calls has the same ones and calls that transport with that
\* request descriptor.
C37_ConstructionFixed ==
  /\ [][\A i \in DOMAIN fetchers :
          Construction(fetchers'[i]) = Construction(fetchers[i])]_vars
  /\ [](\A i \in FetcherIds :
          Construction(fetchers[i]) = Construction(fetchers[1]))
  /\ [](\A r \in RunIds :
          runs[r].fetchArgs = <<fetchers[1].fetch, fetchers[1].input,
                                fetchers[1].init>>)

\* a run on an instance two map calls away from the constructed one, which
\* called the transport and the validation capability
C37_Witness ==
  \E r \in RunIds :
    /\ Settled(r) /\ Invoked(r, "parser")
    /\ runs[r].f = 3
    /\ This(r).restToHandler = Undefined
    /\ Construction(This(r)) = <<"url", "init", "fetch", "parser">>
    /\ runs[r].fetchArgs = <<"fetch", "url", "init">>

\* ------------------------------------------------------------- fairness
\* a promise an invocation waits for settles, and safeRun resumes
RunStep ==
  \/ \E r \in RunIds, e \in Thrown : FetchRejects(r, e)
  \/ \E r \in RunIds, response \in Responses,
        fb \in {Undefined, PlainError, ForeignFetcherError} :
          FetchResolves(r, response, fb)
  \/ \E r \in RunIds, pb \in ParserBehaviours, ht \in {Undefined, PlainError} :
          ExtractResolves(r, pb, ht)
  \/ \E r \in RunIds : ExtractRejects(r, PlainError)
  \/ \E r \in RunIds : TextResolves(r)
  \/ \E r \in RunIds, e \in {PlainError, ForeignFetcherError} : TextRejects(r, e)
  \/ \E r \in RunIds : SafeRunSettle(r)

\* the program when the transport promise, the extractor promise and the
\* promise of clone.text() settle
SpecFair == Spec /\ WF_vars(RunStep)

\* a run is pending / has settled; the caller of Spec holds one invocation
RunPending == runs # <<>> /\ runs[1].pc # "settled"
RunSettled == runs # <<>> /\ runs[1].pc = "settled"

MaxValidations == 3

\* the schema objects the program holds; schemas 1 and 2 are two objects of
\* the same shape, schema 3 is one TypeCompiler.Compile throws on
Schemas == 1..3
SchemaShape(schema) == IF schema = 3 THEN "uncompilable" ELSE "object"
Values == {"conforming", "nonconforming"}

\* the TypeBoxFetcher instances of the process and the parser each was
\* constructed with
TypeBoxParsers == <<"defaultParser", "defaultParser", "customParser">>

\* the compiled checkers made so far
Compiled(calls) ==
  {k \in DOMAIN calls : calls[k].compiled # Undefined
                          /\ calls[k].compiled.tag = "TypeCheck"}

\* TypeCompiler.Compile(schema): a new TypeCheck object, or a throw
Compile(schema, calls) ==
  IF SchemaShape(schema) = "uncompilable"
  THEN [tag |-> "threw"]
  ELSE [tag |-> "TypeCheck", schema |-> schema,
        serial |-> Cardinality(Compiled(calls)) + 1]

\* Map.prototype.set
MapSet(m, key, value) ==
  [k \in DOMAIN m \cup {key} |-> IF k = key THEN value ELSE m[k]]

\* mutant: the checker is compiled and stored on every call
defaultParser_alwaysCompile(cache, calls, schema, value) ==
  LET compiledSchema == Compile(schema, calls) IN
  IF compiledSchema.tag = "threw"
  THEN [cache |-> cache, compiled |-> compiledSchema, result |-> "threw"]
  ELSE [cache |-> MapSet(cache, schema, compiledSchema),
        compiled |-> compiledSchema,
        result |-> IF value = "conforming" THEN "success" ELSE "failure"]

\* defaultParser(schema, value) on the cache `cache`: the cache after the
\* call, what Compile returned (Undefined when it was not called) and the
\* result
defaultParser(cache, calls, schema, value) ==
  LET hit == schema \in DOMAIN cache
      compiled == IF hit THEN Undefined ELSE Compile(schema, calls)
  IN IF ~hit /\ compiled.tag = "threw"
     THEN [cache |-> cache, compiled |-> compiled, result |-> "threw"]
     ELSE LET compiledSchema == IF hit THEN cache[schema] ELSE compiled IN
          [cache |-> IF schema \notin DOMAIN cache
                     THEN MapSet(cache, schema, compiledSchema)
                     ELSE cache,
           compiled |-> compiled,
           result |-> IF value = "conforming" THEN "success" ELSE "failure"]

\* this.parser(schema, body) of TypeBoxFetcher d
ParserCall(d, schema, value) ==
  /\ Len(parserCalls) < MaxValidations
  /\ LET p == IF TypeBoxParsers[d] = "defaultParser"
              THEN defaultParser(compiledSchemas, parserCalls, schema, value)
              ELSE [cache |-> compiledSchemas, compiled |-> Undefined,
                    result |-> IF value = "conforming" THEN "success"
                               ELSE "failure"]
     IN /\ compiledSchemas' = p.cache
        /\ parserCalls' = Append(parserCalls,
             [fetcher |-> d, schema |-> schema, value |-> value,
              compiled |-> p.compiled, result |-> p.result])
  /\ UNCHANGED <<fetchers, runs, ncalls, nruns>>

NextCache ==
  \E d \in DOMAIN TypeBoxParsers, schema \in Schemas, value \in Values :
    ParserCall(d, schema, value)

SpecCache == Init /\ [][NextCache]_vars

\* the calls of TypeCompiler.Compile made for schema so far
CompileCalls(schema) ==
  {k \in DOMAIN parserCalls : parserCalls[k].schema = schema
                                /\ parserCalls[k].compiled # Undefined}

\* C39 as stated: over any sequence of validation calls each schema object
\* is compiled at most once.
C39_CompiledAtMostOnce ==
  \A schema \in Schemas : Cardinality(CompileCalls(schema)) <= 1

\* C39 (amended): the cache is insert-if-absent and never evicts: each
\* schema object gets at most one compiled checker, the cache holds exactly
\* the checkers compiled, a schema that is cached is not compiled again, and
\* an entry once inserted is never replaced or removed; a schema whose
\* compilation throws is not cached and is compiled again on the next call.
C39_InsertIfAbsent ==
  /\ [](\A schema \in Schemas :
          /\ Cardinality(CompileCalls(schema) \cap Compiled(parserCalls)) <= 1
          /\ schema \in DOMAIN compiledSchemas <=>
               CompileCalls(schema) \cap Compiled(parserCalls) # {}
          /\ schema \in DOMAIN compiledSchemas =>
               \E k \in CompileCalls(schema) :
                 parserCalls[k].compiled = compiledSchemas[schema])
  /\ [][\A d \in DOMAIN TypeBoxParsers, schema \in Schemas, value \in Values :
          ParserCall(d, schema, value) =>
            /\ \A s \in DOMAIN compiledSchemas :
                 /\ s \in DOMAIN compiledSchemas'
                 /\ compiledSchemas'[s] = compiledSchemas[s]
            /\ schema \in DOMAIN compiledSchemas =>
                 parserCalls'[Len(parserCalls')].compiled = Undefined
            /\ (TypeBoxParsers[d] = "defaultParser"
                  /\ schema \notin DOMAIN compiledSchemas) =>
                 parserCalls'[Len(parserCalls')].compiled # Undefined
     ]_vars

\* two dispatchers validated against the same schema object, which was
\* compiled by the first call and found in the cache by the second
C39_Witness ==
  \E j, k \in DOMAIN parserCalls :
    /\ j < k
    /\ parserCalls[j].schema = parserCalls[k].schema
    /\ parserCalls[j].fetcher # parserCalls[k].fetcher
    /\ TypeBoxParsers[parserCalls[k].fetcher] = "defaultParser"
    /\ parserCalls[j].compiled # Undefined
    /\ parserCalls[k].compiled = Undefined
    /\ parserCalls[k].schema \in DOMAIN compiledSchemas

====
